---- MODULE Spec2Model ----
(***************************************************************************)
(* A model of nato.py: the command-line country lookup (main), the         *)
(* country-info fetcher (get_country_info) and the conflict heuristic      *)
(* (check_civil_conflict).                                                 *)
(*                                                                         *)
(* Text on which the program computes (country codes, country names, the   *)
(* words of an article, the formatted population) is a sequence of         *)
(* one-character strings, so that upper(), lower(), replace(), substring   *)
(* containment and number formatting are computed, not assumed.            *)
(*                                                                         *)
(* The external collaborators are inputs: the two HTTP services answer     *)
(* with an outcome chosen by the environment, and the article reaches the  *)
(* heuristic as what sent_tokenize/word_tokenize deliver: a sequence of    *)
(* sentences, each a sequence of words.                                    *)
(***************************************************************************)
EXTENDS Integers, Sequences, FiniteSets, TLC

VARIABLES
    pc,                 \* position of the program
    entry,              \* the function the run was started at
    arg,                \* the code given on the command line / by the caller
    code,               \* get_country_info's parameter
    requests,           \* outbound HTTP requests issued so far, in order
    log,                \* records handed to logging
    stdout,             \* what main printed
    body,               \* the country-data response body
    country_info,       \* get_country_info's local dict
    result,             \* get_country_info's return value
    country,            \* check_civil_conflict's parameter
    current_year,       \* datetime.datetime.now().year
    sentences,          \* sent_tokenize(content_text), each word_tokenize'd
    idx,                \* the sentence the for loop is at (1-based)
    year_positions,     \* of the sentence examined last
    keyword_positions,  \* of the sentence examined last
    conflict_info,      \* check_civil_conflict's return value
    raised              \* the exception that left the program, if any

vars == <<pc, entry, arg, code, requests, log, stdout, body, country_info, result,
          country, current_year, sentences, idx, year_positions, keyword_positions,
          conflict_info, raised>>

----------------------------------------------------------------------------
(* Characters and strings *)

UpperChars == <<"A","B","C","D","E","F","G","H","I","J","K","L","M",
                "N","O","P","Q","R","S","T","U","V","W","X","Y","Z">>
LowerChars == <<"a","b","c","d","e","f","g","h","i","j","k","l","m",
                "n","o","p","q","r","s","t","u","v","w","x","y","z">>
DigitChars == <<"0","1","2","3","4","5","6","7","8","9">>

IndexIn(c, table) == CHOOSE i \in 1..Len(table) : table[i] = c
IsIn(c, table) == \E i \in 1..Len(table) : table[i] = c

\* str.lower() and str.upper(), one character: a letter's counterpart in the other
\* case, any other character itself
ToLower == [c \in { UpperChars[i] : i \in 1..Len(UpperChars) } |->
               LowerChars[IndexIn(c, UpperChars)]]
ToUpper == [c \in { LowerChars[i] : i \in 1..Len(LowerChars) } |->
               UpperChars[IndexIn(c, LowerChars)]]
LowerCh(c) == IF c \in DOMAIN ToLower THEN ToLower[c] ELSE c
UpperCh(c) == IF c \in DOMAIN ToUpper THEN ToUpper[c] ELSE c

\* str.lower() and str.upper()
StrLower(s) == [i \in 1..Len(s) |-> LowerCh(s[i])]
StrUpper(s) == [i \in 1..Len(s) |-> UpperCh(s[i])]

\* sub in s
Contains(s, sub) ==
    \E i \in 0..(Len(s) - Len(sub)) : SubSeq(s, i + 1, i + Len(sub)) = sub

\* str(n) for a non-negative int
RECURSIVE Str(_)
Str(n) == IF n < 10 THEN <<DigitChars[n + 1]>>
          ELSE Str(n \div 10) \o <<DigitChars[(n % 10) + 1]>>

\* country.replace(' ', '_')
ReplaceSpace(s) == [i \in 1..Len(s) |-> IF s[i] = " " THEN "_" ELSE s[i]]

\* int(s) for a str: the decimal value, or a ValueError
IsDecimal(s) == Len(s) > 0 /\ \A i \in 1..Len(s) : IsIn(s[i], DigitChars)
RECURSIVE ParseInt(_)
ParseInt(s) == IF Len(s) = 0 THEN 0
               ELSE 10 * ParseInt(SubSeq(s, 1, Len(s) - 1))
                    + (IndexIn(s[Len(s)], DigitChars) - 1)

\* the digits in groups of three counted from the left
RECURSIVE GroupDigitsFromLeft(_)
GroupDigitsFromLeft(ds) ==
    IF Len(ds) <= 3 THEN ds
    ELSE SubSeq(ds, 1, 3) \o <<",">> \o GroupDigitsFromLeft(SubSeq(ds, 4, Len(ds)))

\* format(n, ","): the digits in groups of three counted from the right
RECURSIVE GroupDigits(_)
GroupDigits(ds) ==
    IF Len(ds) <= 3 THEN ds
    ELSE GroupDigits(SubSeq(ds, 1, Len(ds) - 3)) \o <<",">>
         \o SubSeq(ds, Len(ds) - 2, Len(ds))
FormatCommas(n) == GroupDigits(Str(n))

\* ', '.join(names)
RECURSIVE Join(_)
Join(names) == IF Len(names) = 0 THEN <<>>
               ELSE IF Len(names) = 1 THEN names[1]
               ELSE names[1] \o <<",", " ">> \o Join(Tail(names))

----------------------------------------------------------------------------
(* The static membership tables *)

nato_countries ==
    { <<"A","L">>, <<"B","E">>, <<"B","G">>, <<"C","A">>,
      <<"H","R">>, <<"C","Z">>, <<"D","K">>, <<"E","E">>,
      <<"F","R">>, <<"D","E">>, <<"G","R">>, <<"H","U">>,
      <<"I","S">>, <<"I","T">>, <<"L","V">>, <<"L","T">>,
      <<"L","U">>, <<"N","L">>, <<"N","O">>, <<"P","L">>,
      <<"P","T">>, <<"R","O">>, <<"S","K">>, <<"S","I">>,
      <<"E","S">>, <<"T","R">>, <<"G","B">>, <<"U","S">>,
      <<"M","K">>, <<"M","E">>, <<"F","I">> }

brics_countries ==
    { <<"B","R">>, <<"R","U">>, <<"I","N">>, <<"C","N">>, <<"Z","A">>,
      <<"E","G">>, <<"E","T">>, <<"I","R">>, <<"S","A">>, <<"A","E">> }

\* the if / elif / else of get_country_info on the normalized code
Classify(code_upper, nato, brics) ==
    IF code_upper \in nato THEN [status |-> "NATO Member", color |-> "green"]
    ELSE IF code_upper \in brics THEN [status |-> "BRICS Member", color |-> "red"]
    ELSE [status |-> "Neither", color |-> "yellow"]

----------------------------------------------------------------------------
(* Values *)

None == [t |-> "None"]
Unset == [t |-> "unset"]
NoneText == <<"N","o","n","e">>
MandarinCantonese ==
    <<"M","a","n","d","a","r","i","n","/","C","a","n","t","o","n","e","s","e">>

\* dict.get(key, default)
Get(d, key, default) == IF key \in DOMAIN d THEN d[key] ELSE default
Without(d, key) == [k \in DOMAIN d \ {key} |-> d[k]]

----------------------------------------------------------------------------
(* Inputs: what the caller and the two services can hand to the program *)

Codes ==
    { <<"U","S">>, <<"u","s">>, <<"U","s">>, <<"B","R">>, <<"b","r">>, <<"b","R">>,
      <<"J","P">>, <<"j","p">>, <<"C","N">>, <<"z","a">>, <<"f","i">>, <<"X","K">> }

Names ==
    { <<"B","r","a","z","i","l">>,
      <<"S","o","u","t","h"," ","A","f","r","i","c","a">> }

IntVal(n) == [t |-> "int", v |-> n]
StrVal(s) == [t |-> "str", v |-> s]
ListVal(l) == [t |-> "list", v |-> l]
Null == [t |-> "null"]

Populations ==
    { 0, 1, 12, 123, 999, 1000, 1001, 1234, 12345, 99999, 100000, 123456, 999999,
      1000000, 1234567, 12345678, 123456789, 1234567890 }

Lang(c, n) == [iso639_1 |-> c, name |-> n]
n_Chinese == <<"C","h","i","n","e","s","e">>
n_English == <<"E","n","g","l","i","s","h">>
n_Zulu == <<"Z","u","l","u">>
n_Zhongwen == <<"Z","h","o","n","g","w","e","n">>

\* lists of (language-code, language-name) pairs
WellFormedLanguages ==
    { <<>>,
      <<Lang("zh", n_Chinese)>>,
      <<Lang("en", n_English)>>,
      <<Lang("en", n_English), Lang("zh", n_Chinese), Lang("zu", n_Zulu)>>,
      <<Lang("zh", n_Zhongwen), Lang("en", n_English)>>,
      <<Lang("zh", n_Chinese), Lang("zh", n_Zhongwen)>>,
      <<Lang("zu", n_Zulu), Lang("en", n_Zhongwen)>>,
      <<Lang("ZH", n_Chinese), Lang("zh", <<>>)>> }

\* lists with an entry that lacks its code or its name
DegradedLanguages ==
    { <<[name |-> n_Zulu]>>,
      <<[iso639_1 |-> "en"]>>,
      <<[iso639_1 |-> "zh"]>>,
      <<Lang("zh", n_Chinese), [name |-> n_Zulu]>>,
      <<Lang("en", n_English), [iso639_1 |-> "zu"]>> }

Cur(n) == [code |-> "XXX", name |-> n]
n_Real == <<"R","e","a","l">>
n_Rand == <<"R","a","n","d">>
WellFormedCurrencies == { <<>>, <<Cur(n_Real)>>, <<Cur(n_Rand), Cur(n_Real)>> }
DegradedCurrencies == { <<[code |-> "XXX"]>>, <<Cur(n_Real), [code |-> "XXX"]>> }

BaseData ==
    [ name |-> <<"B","r","a","z","i","l">>, region |-> "Americas",
      subregion |-> "South America", population |-> IntVal(1234567),
      languages |-> ListVal(<<Lang("en", n_English)>>),
      currencies |-> ListVal(<<Cur(n_Real)>>) ]

\* responses in which every field is present and well formed
WellFormedData ==
    { [BaseData EXCEPT !.name = n] : n \in Names }
    \cup { [BaseData EXCEPT !.population = IntVal(p)] : p \in Populations }
    \cup { [BaseData EXCEPT !.population = StrVal(Str(p))] : p \in {0, 1234} }
    \cup { [BaseData EXCEPT !.languages = ListVal(l)] : l \in WellFormedLanguages }
    \cup { [BaseData EXCEPT !.currencies = ListVal(c)] : c \in WellFormedCurrencies }

\* responses with one field missing, null or unparseable
DegradedData ==
    { Without(BaseData, f) : f \in DOMAIN BaseData }
    \cup { [BaseData EXCEPT !.population = v] : v \in {Null, StrVal(<<"n","/","a">>)} }
    \cup { [BaseData EXCEPT !.languages = v] :
             v \in {Null} \cup { ListVal(l) : l \in DegradedLanguages } }
    \cup { [BaseData EXCEPT !.currencies = v] :
             v \in {Null} \cup { ListVal(c) : c \in DegradedCurrencies } }

\* a response body: JSON text that parses to an object, or text that does not parse
Bodies ==
    { [ok |-> TRUE, json |-> d] : d \in WellFormedData \cup DegradedData }
    \cup { [ok |-> FALSE] }

\* how an HTTP request can fail: requests.exceptions.RequestException
NetworkFailures == { "ConnectionError", "Timeout", "HTTPError" }

----------------------------------------------------------------------------
(* Articles: what the tokenizers deliver *)

Threshold == 10
WrapWidth == 80
MaxWords == 13
MaxSentences == 3

w_the == <<"t","h","e">>
w_war == <<"w","a","r">>
w_War == <<"W","a","r">>
w_WARFARE == <<"W","A","R","F","A","R","E">>
w_wartime == <<"w","a","r","t","i","m","e">>
w_award == <<"a","w","a","r","d">>
w_wa == <<"w","a">>
w_peace == <<"p","e","a","c","e">>
w_Conflict == <<"C","o","n","f","l","i","c","t">>
w_UPRISING == <<"U","P","R","I","S","I","N","G">>
w_2026 == <<"2","0","2","6">>
w_2025 == <<"2","0","2","5">>
w_range == <<"2","0","2","5","-","2","0","2","6">>
w_in2026 == <<"(","2","0","2","6",")">>

Years == { 2025, 2026 }
YearWords == { w_2026, w_in2026 }
KeyWords == { w_War, w_WARFARE, w_award, w_wa }
SecondWords == { w_the, w_Conflict, w_range }

\* a sentence of n words: kw at kp, yw at yp, sw as the last word, fillers elsewhere
Sentence(n, yp, yw, kp, kw, sw) ==
    [i \in 1..n |-> IF i = kp THEN kw ELSE IF i = yp THEN yw
                    ELSE IF i = n THEN sw ELSE w_the]

LongSentences ==
    { Sentence(MaxWords, yp, yw, kp, kw, sw) :
        yp \in {0, 1, 2, MaxWords - 1}, yw \in YearWords,
        kp \in 0..(MaxWords - 1), kw \in KeyWords, sw \in SecondWords }

ShortSentences ==
    { <<w_2026, w_war>>, <<w_peace, w_2026>>, <<w_War, w_the>>,
      <<w_wartime, w_the, w_range>>, <<w_UPRISING, w_2025>> }

RECURSIVE SeqsUpTo(_, _)
SeqsUpTo(S, n) ==
    IF n = 0 THEN { <<>> }
    ELSE SeqsUpTo(S, n - 1)
         \cup { Append(a, x) : a \in { b \in SeqsUpTo(S, n - 1) : Len(b) = n - 1 }, x \in S }

\* the articles the heuristic is run on alone
Articles ==
    { <<s>> : s \in LongSentences } \cup SeqsUpTo(ShortSentences, MaxSentences)

\* the articles of a whole run of main
MainArticles ==
    { <<>>, << <<w_the>>, <<w_2026, w_war>>, <<w_War, w_2026>> >>,
      << <<w_2025, w_war>>, <<w_UPRISING, w_2025>> >> }

----------------------------------------------------------------------------
(* check_civil_conflict *)

conflict_keywords ==
    << <<"w","a","r">>, <<"c","o","n","f","l","i","c","t">>,
       <<"i","n","s","u","r","g","e","n","c","y">>,
       <<"r","e","b","e","l","l","i","o","n">>,
       <<"u","p","r","i","s","i","n","g">> >>

\* the list a comprehension over enumerate(words) builds: the 0-based positions of
\* the words its condition keeps, in order
Positions(keep) ==
    LET F[i \in 0..Len(keep)] ==
            IF i = 0 THEN <<>>
            ELSE IF keep[i] THEN Append(F[i - 1], i - 1) ELSE F[i - 1]
    IN F[Len(keep)]

\* [i for i, word in enumerate(words) if str(current_year) in word]
YearPositions(words, year) ==
    Positions([i \in 1..Len(words) |-> Contains(words[i], Str(year))])

\* the keyword positions without word.lower()
KeywordPositionsCaseSensitive(words) ==
    Positions([i \in 1..Len(words) |->
                 \E k \in 1..Len(conflict_keywords) : Contains(words[i], conflict_keywords[k])])

\* [i for i, word in enumerate(words)
\*    if any(keyword in word.lower() for keyword in conflict_keywords)]
KeywordPositions(words) ==
    Positions([i \in 1..Len(words) |->
                 \E k \in 1..Len(conflict_keywords) :
                     Contains(StrLower(words[i]), conflict_keywords[k])])

Abs(x) == IF x < 0 THEN -x ELSE x

\* the proximity test with < for <=
NearStrict(yps, kps) ==
    \E a \in 1..Len(yps) : \E b \in 1..Len(kps) : Abs(yps[a] - kps[b]) < Threshold

\* lines 71-73: the two nested loops find a year position and a keyword position
\* at most the threshold apart
Near(yps, kps) ==
    \E a \in 1..Len(yps) : \E b \in 1..Len(kps) : Abs(yps[a] - kps[b]) <= Threshold

Request(kind, key, outcome) == [kind |-> kind, key |-> key, outcome |-> outcome]

\* lines 42-59 and 79-84 with the first except clause missing its exception class:
\* the failure leaves the function
CCC_RequestUncaught(Arts) ==
    /\ pc = "check_civil_conflict"
    /\ \/ \E e \in NetworkFailures :
            /\ requests' = Append(requests, Request("encyclopedia", ReplaceSpace(country), e))
            /\ raised' = e
            /\ pc' = "crashed"
            /\ UNCHANGED <<current_year, sentences, idx, log, conflict_info>>
       \/ \E art \in Arts, y \in Years :
            /\ requests' = Append(requests, Request("encyclopedia", ReplaceSpace(country), "ok"))
            /\ current_year' = y
            /\ sentences' = art
            /\ idx' = 1
            /\ pc' = "ccc_scan"
            /\ UNCHANGED <<log, conflict_info, raised>>
    /\ UNCHANGED <<entry, arg, code, stdout, body, country_info, result, country,
                   year_positions, keyword_positions>>

\* lines 42-59 and 79-84: the encyclopedia request, and what becomes of its failure
CCC_Request(Arts) ==
    /\ pc = "check_civil_conflict"
    /\ \/ \E e \in NetworkFailures :
            /\ requests' = Append(requests, Request("encyclopedia", ReplaceSpace(country), e))
            /\ log' = Append(log, [level |-> "ERROR", msg |-> "Error fetching page", detail |-> e])
            /\ conflict_info' = [kind |-> "error",
                                 text |-> "An error occurred while fetching information", detail |-> e]
            /\ pc' = "ccc_return"
            /\ UNCHANGED <<current_year, sentences, idx>>
       \/ \* the page arrived and a tokenizer failed (its data is not installed)
          /\ requests' = Append(requests, Request("encyclopedia", ReplaceSpace(country), "ok"))
          /\ log' = Append(log, [level |-> "ERROR", msg |-> "General error", detail |-> "LookupError"])
          /\ conflict_info' = [kind |-> "error", text |-> "An error occurred", detail |-> "LookupError"]
          /\ pc' = "ccc_return"
          /\ \E y \in Years : current_year' = y
          /\ UNCHANGED <<sentences, idx>>
       \/ \E art \in Arts, y \in Years :
            /\ requests' = Append(requests, Request("encyclopedia", ReplaceSpace(country), "ok"))
            /\ current_year' = y
            /\ sentences' = art
            /\ idx' = 1
            /\ pc' = "ccc_scan"
            /\ UNCHANGED <<log, conflict_info>>
    /\ UNCHANGED <<entry, arg, code, stdout, body, country_info, result, country,
                   year_positions, keyword_positions, raised>>

\* lines 65-76 with the loop starting at the second sentence
CCC_ScanFromSecond ==
    /\ pc = "ccc_scan"
    /\ idx <= Len(sentences)
    /\ LET words == sentences[idx]
           yps == YearPositions(words, current_year)
           kps == KeywordPositions(words)
       IN /\ year_positions' = yps
          /\ keyword_positions' = kps
          /\ IF idx > 1 /\ Near(yps, kps)
             THEN /\ conflict_info' = [kind |-> "evidence",
                                       text |-> "Potential recent conflict found",
                                       sentence |-> words, width |-> WrapWidth]
                  /\ pc' = "ccc_return"
                  /\ UNCHANGED idx
             ELSE /\ idx' = idx + 1
                  /\ UNCHANGED <<conflict_info, pc>>
    /\ UNCHANGED <<entry, arg, code, requests, log, stdout, body, country_info, result,
                   country, current_year, sentences, raised>>

\* lines 65-76: one pass of the for loop over the sentences
CCC_Scan ==
    /\ pc = "ccc_scan"
    /\ idx <= Len(sentences)
    /\ LET words == sentences[idx]
           yps == YearPositions(words, current_year)
           kps == KeywordPositions(words)
       IN /\ year_positions' = yps
          /\ keyword_positions' = kps
          /\ IF Near(yps, kps)
             THEN /\ conflict_info' = [kind |-> "evidence",
                                       text |-> "Potential recent conflict found",
                                       sentence |-> words, width |-> WrapWidth]
                  /\ pc' = "ccc_return"
                  /\ UNCHANGED idx
             ELSE /\ idx' = idx + 1
                  /\ UNCHANGED <<conflict_info, pc>>
    /\ UNCHANGED <<entry, arg, code, requests, log, stdout, body, country_info, result,
                   country, current_year, sentences, raised>>

\* line 78: the loop ended without a return
CCC_NoConflict ==
    /\ pc = "ccc_scan"
    /\ idx > Len(sentences)
    /\ conflict_info' = [kind |-> "none", text |-> "No recent conflicts found",
                         country |-> country, year |-> Str(current_year)]
    /\ pc' = "ccc_return"
    /\ UNCHANGED <<entry, arg, code, requests, log, stdout, body, country_info, result,
                   country, current_year, sentences, idx, year_positions,
                   keyword_positions, raised>>

----------------------------------------------------------------------------
(* get_country_info *)

\* lines 93-99: the country-data request; a failure is logged and None returned
GetCountryInfo_Request ==
    /\ pc = "get_country_info"
    /\ \/ \E e \in NetworkFailures :
            /\ requests' = Append(requests, Request("country-data", code, e))
            /\ log' = Append(log, [level |-> "ERROR", msg |-> "Error fetching data from API",
                                   detail |-> e])
            /\ result' = None
            /\ pc' = IF entry = "main" THEN "main_print" ELSE "done"
            /\ UNCHANGED body
       \/ \E b \in Bodies :
            /\ requests' = Append(requests, Request("country-data", code, "ok"))
            /\ body' = b
            /\ pc' = "gci_build"
            /\ UNCHANGED <<log, result>>
    /\ UNCHANGED <<entry, arg, code, stdout, country_info, country, current_year,
                   sentences, idx, year_positions, keyword_positions, conflict_info, raised>>

\* line 112: int(data.get('population', 0))
PopulationError(data) ==
    LET p == Get(data, "population", IntVal(0))
    IN IF p.t = "null" THEN "TypeError"
       ELSE IF p.t = "str" /\ ~IsDecimal(p.v) THEN "ValueError"
       ELSE "none"
PopulationInt(data) ==
    LET p == Get(data, "population", IntVal(0))
    IN IF p.t = "str" THEN ParseInt(p.v) ELSE p.v

\* the language list left as the API gave it
RenameNone(langs) == langs

\* lines 115-118: the loop that renames the Chinese entries, in place
RenameChinese(langs) ==
    [i \in 1..Len(langs) |->
        IF langs[i].iso639_1 = "zh"
        THEN [k \in DOMAIN langs[i] \cup {"name"} |->
                 IF k = "name" THEN MandarinCantonese ELSE langs[i][k]]
        ELSE langs[i]]
LanguagesError(data) ==
    LET l == Get(data, "languages", ListVal(<<>>))
    IN IF l.t = "null" THEN "TypeError"
       ELSE IF \E i \in 1..Len(l.v) : "iso639_1" \notin DOMAIN l.v[i] THEN "KeyError"
       ELSE IF \E i \in 1..Len(l.v) : "name" \notin DOMAIN RenameChinese(l.v)[i] THEN "KeyError"
       ELSE "none"

\* line 126: [currency['name'] for currency in data.get('currencies', [])]
CurrenciesError(data) ==
    LET c == Get(data, "currencies", ListVal(<<>>))
    IN IF c.t = "null" THEN "TypeError"
       ELSE IF \E i \in 1..Len(c.v) : "name" \notin DOMAIN c.v[i] THEN "KeyError"
       ELSE "none"

\* lines 101-126: the first statement that raises, if one does
BuildError(b) ==
    IF ~b.ok THEN "JSONDecodeError"
    ELSE IF PopulationError(b.json) # "none" THEN PopulationError(b.json)
    ELSE IF LanguagesError(b.json) # "none" THEN LanguagesError(b.json)
    ELSE CurrenciesError(b.json)

NamesOf(l) == [i \in 1..Len(l) |-> l[i].name]
Field(color, text) == [color |-> color, text |-> text]

\* line 128: code.upper(), and the same line without the call
CodeAsGiven(c) == c
CodeUpper(c) == StrUpper(c)

\* lines 120-141: the dict, with the membership status
CountryInfo(data, c) ==
    LET languages == RenameChinese(Get(data, "languages", ListVal(<<>>)).v)
        currencies == Get(data, "currencies", ListVal(<<>>)).v
        membership == Classify(CodeUpper(c), nato_countries, brics_countries)
    IN ("Country Name" :> Field("white", Get(data, "name", NoneText)))
       @@ ("Region" :> Field("light_red", Get(data, "region", "None")))
       @@ ("Subregion" :> Field("cyan", Get(data, "subregion", "None")))
       @@ ("Population" :> Field("light_green", FormatCommas(PopulationInt(data))))
       @@ ("Languages" :> Field("light_yellow", Join(NamesOf(languages))))
       @@ ("Currencies" :> Field("light_cyan", Join(NamesOf(currencies))))
       @@ ("Membership Status" :> Field(membership.color, membership.status))

\* lines 101-141: parse the body and build the record, or raise
GetCountryInfo_Build ==
    /\ pc = "gci_build"
    /\ IF BuildError(body) # "none"
       THEN /\ raised' = BuildError(body)
            /\ pc' = "crashed"
            /\ UNCHANGED country_info
       ELSE /\ country_info' = CountryInfo(body.json, code)
            /\ pc' = "gci_conflict"
            /\ UNCHANGED raised
    /\ UNCHANGED <<entry, arg, code, requests, log, stdout, body, result, country,
                   current_year, sentences, idx, year_positions, keyword_positions,
                   conflict_info>>

\* lines 142-143 with the code passed on instead of the resolved name
GetCountryInfo_CallConflictWithCode ==
    /\ pc = "gci_conflict"
    /\ country' = code
    /\ pc' = "check_civil_conflict"
    /\ UNCHANGED <<entry, arg, code, requests, log, stdout, body, country_info, result,
                   current_year, sentences, idx, year_positions, keyword_positions,
                   conflict_info, raised>>

\* lines 142-143 and 42: the call of check_civil_conflict with the resolved name;
\* country.replace is outside the callee's try
GetCountryInfo_CallConflict ==
    /\ pc = "gci_conflict"
    /\ IF "name" \in DOMAIN body.json
       THEN /\ country' = body.json.name
            /\ pc' = "check_civil_conflict"
            /\ UNCHANGED raised
       ELSE /\ raised' = "AttributeError"
            /\ pc' = "crashed"
            /\ UNCHANGED country
    /\ UNCHANGED <<entry, arg, code, requests, log, stdout, body, country_info, result,
                   current_year, sentences, idx, year_positions, keyword_positions,
                   conflict_info>>

\* lines 143-147: the conflict report joins the record, which is returned
GetCountryInfo_Return ==
    /\ pc = "ccc_return"
    /\ entry # "check_civil_conflict"
    /\ country_info' = country_info @@ ("Civil Conflict" :> conflict_info)
    /\ result' = [t |-> "dict", v |-> country_info']
    /\ pc' = IF entry = "main" THEN "main_print" ELSE "done"
    /\ UNCHANGED <<entry, arg, code, requests, log, stdout, body, country, current_year,
                   sentences, idx, year_positions, keyword_positions, conflict_info, raised>>

----------------------------------------------------------------------------
(* main *)

\* lines 153-159
Main_Start ==
    /\ pc = "main"
    /\ code' = StrUpper(arg)
    /\ log' = Append(log, [level |-> "INFO", msg |-> "Fetching information for country code",
                           detail |-> StrUpper(arg)])
    /\ pc' = "get_country_info"
    /\ UNCHANGED <<entry, arg, requests, stdout, body, country_info, result, country,
                   current_year, sentences, idx, year_positions, keyword_positions,
                   conflict_info, raised>>

\* lines 161-168 with the else branch lost: the message is printed after the report too
Main_PrintBoth ==
    /\ pc = "main_print"
    /\ stdout' = IF result.t = "dict"
                 THEN <<[t |-> "report", info |-> result.v],
                        [t |-> "message", text |-> "No information found for the given code."]>>
                 ELSE <<[t |-> "message", text |-> "No information found for the given code."]>>
    /\ pc' = "done"
    /\ UNCHANGED <<entry, arg, code, requests, log, body, country_info, result, country,
                   current_year, sentences, idx, year_positions, keyword_positions,
                   conflict_info, raised>>

\* lines 161-168: if info: the report, else the message
Main_Print ==
    /\ pc = "main_print"
    /\ stdout' = IF result.t = "dict"
                 THEN Append(stdout, [t |-> "report", info |-> result.v])
                 ELSE Append(stdout, [t |-> "message",
                                      text |-> "No information found for the given code."])
    /\ pc' = "done"
    /\ UNCHANGED <<entry, arg, code, requests, log, body, country_info, result, country,
                   current_year, sentences, idx, year_positions, keyword_positions,
                   conflict_info, raised>>

----------------------------------------------------------------------------
(* Specifications *)

NoInfo == [t |-> "unset"]

InitCommon ==
    /\ requests = <<>>
    /\ log = <<>>
    /\ stdout = <<>>
    /\ body = [ok |-> FALSE]
    /\ country_info = NoInfo
    /\ result = Unset
    /\ current_year = 0
    /\ sentences = <<>>
    /\ idx = 0
    /\ year_positions = <<>>
    /\ keyword_positions = <<>>
    /\ conflict_info = [kind |-> "unset"]
    /\ raised = "none"

\* a run of main, or a caller's call of get_country_info
Init ==
    /\ InitCommon
    /\ entry \in {"main", "get_country_info"}
    /\ pc = entry
    /\ arg \in Codes
    /\ code = IF entry = "main" THEN <<>> ELSE arg
    /\ country = <<>>

Next ==
    \/ Main_Start
    \/ GetCountryInfo_Request
    \/ GetCountryInfo_Build
    \/ GetCountryInfo_CallConflict
    \/ CCC_Request(MainArticles)
    \/ CCC_Scan
    \/ CCC_NoConflict
    \/ GetCountryInfo_Return
    \/ Main_Print

Spec == Init /\ [][Next]_vars

\* a caller's call of check_civil_conflict
InitConflict ==
    /\ InitCommon
    /\ entry = "check_civil_conflict"
    /\ pc = entry
    /\ arg = <<>>
    /\ code = <<>>
    /\ country \in Names

NextConflict ==
    \/ CCC_Request(Articles)
    \/ CCC_Scan
    \/ CCC_NoConflict

SpecConflict == InitConflict /\ [][NextConflict]_vars

----------------------------------------------------------------------------
(* Properties *)

Built == country_info # NoInfo
Failed(r) == r.outcome \in NetworkFailures
Logged(level, msg, detail) ==
    \E i \in 1..Len(log) :
        log[i].level = level /\ log[i].msg = msg /\ log[i].detail = detail

\* C1: whenever get_country_info has built its record, for a code in any letter
\* case, the membership tag is the one of the upper-cased code: NATO Member if
\* that is in the NATO table, else BRICS Member if it is in the BRICS table, else
\* Neither; and a code in both tables would be tagged NATO Member.
C1_Membership ==
    /\ Built =>
         LET u == [i \in 1..Len(arg) |-> UpperCh(arg[i])]
             tag == country_info["Membership Status"].text
         IN /\ (u \in nato_countries) => tag = "NATO Member"
            /\ (u \notin nato_countries /\ u \in brics_countries) => tag = "BRICS Member"
            /\ (u \notin nato_countries /\ u \notin brics_countries) => tag = "Neither"
    /\ \A c \in nato_countries \cup brics_countries :
         Classify(c, nato_countries \cup {c}, brics_countries \cup {c}).status = "NATO Member"

\* get_country_info was called with a lower-case code of a NATO member, of a BRICS
\* member mixed case, and the tag is the member's
C1_Witness ==
    /\ Built
    /\ entry = "get_country_info"
    /\ code = <<"b","R">>
    /\ country_info["Membership Status"].text = "BRICS Member"

\* C3 as stated: the failure of either call comes back from the function that made
\* the call as a descriptive error string.
C3_ErrorStringReturned ==
    \A i \in 1..Len(requests) :
        Failed(requests[i]) =>
            /\ raised = "none"
            /\ requests[i].kind = "country-data" => result.t = "str"
            /\ requests[i].kind = "encyclopedia" => conflict_info.kind = "error"

\* C3, amended: no network failure leaves the program as an exception. A failed
\* encyclopedia call comes back from check_civil_conflict as an error string that
\* carries the failure, which is logged too; a failed country-data call is logged
\* with the failure and comes back from get_country_info as None, not a string.
C3_FailureHandled ==
    \A i \in 1..Len(requests) :
        Failed(requests[i]) =>
            /\ raised = "none"
            /\ pc # "crashed"
            /\ requests[i].kind = "country-data" =>
                 /\ result = None
                 /\ Logged("ERROR", "Error fetching data from API", requests[i].outcome)
            /\ requests[i].kind = "encyclopedia" =>
                 /\ conflict_info.kind = "error"
                 /\ conflict_info.text = "An error occurred while fetching information"
                 /\ conflict_info.detail = requests[i].outcome
                 /\ Logged("ERROR", "Error fetching page", requests[i].outcome)

\* the encyclopedia call timed out in a run of main, which went on to print its report
C3_Witness ==
    /\ entry = "main"
    /\ pc = "done"
    /\ Len(requests) = 2
    /\ requests[2].outcome = "Timeout"
    /\ Len(stdout) = 1
    /\ stdout[1].t = "report"
    /\ stdout[1].info["Civil Conflict"].kind = "error"

\* C4: after a successful country-data response, whatever field is missing or
\* unparseable, get_country_info does not raise.
C4_NeverRaises ==
    (Len(requests) >= 1 /\ requests[1].outcome = "ok") => (raised = "none" /\ pc # "crashed")

\* C6: the Languages field is the API's names in the API's order, joined with
\* ", ", with the name of every entry whose code is 'zh' replaced by
\* Mandarin/Cantonese.
C6_Languages ==
    (Built /\ "languages" \in DOMAIN body.json) =>
        LET api == body.json.languages.v
            shown == [i \in 1..Len(api) |->
                        IF api[i].iso639_1 = "zh" THEN MandarinCantonese ELSE api[i].name]
        IN country_info["Languages"].text = Join(shown)

\* a zh entry named Zhongwen by the API, followed by another language
C6_Witness ==
    /\ Built
    /\ "languages" \in DOMAIN body.json
    /\ body.json.languages.v = <<Lang("zh", n_Zhongwen), Lang("en", n_English)>>
    /\ country_info["Languages"].text = MandarinCantonese \o <<",", " ">> \o n_English

StripCommas(t) == SelectSeq(t, LAMBDA c : c # ",")

\* C7: for an integer population n the Population field holds digits and commas
\* only, a comma exactly at every fourth place counted from the right and never in
\* front; without the commas it is the decimal numeral of n.
C7_Population ==
    (Built /\ "population" \in DOMAIN body.json /\ body.json.population.t = "int") =>
        LET n == body.json.population.v
            t == country_info["Population"].text
        IN /\ \A i \in 1..Len(t) :
                (t[i] = ",") <=> ((Len(t) - i + 1) % 4 = 0)
           /\ t[1] # ","
           /\ IsDecimal(StripCommas(t))
           /\ ParseInt(StripCommas(t)) = n
           /\ (n > 0 => StripCommas(t)[1] # "0")
           /\ (n < 1000 => StripCommas(t) = t)

\* 1234567 is shown as 1,234,567
C7_Witness ==
    /\ Built
    /\ body.json.population = IntVal(1234567)
    /\ country_info["Population"].text = <<"1",",","2","3","4",",","5","6","7">>

\* C8: at most two requests are issued, the country-data request first and once,
\* the encyclopedia request second and once, only after the country-data request
\* succeeded, and for the name of the response with '_' for ' ', not for the code.
C8_Requests ==
    /\ Len(requests) <= 2
    /\ Len(requests) >= 1 =>
         /\ requests[1].kind = "country-data"
         /\ requests[1].key = code
    /\ Len(requests) = 2 =>
         /\ requests[2].kind = "encyclopedia"
         /\ requests[1].outcome = "ok"
         /\ body.ok /\ "name" \in DOMAIN body.json
         /\ Len(requests[2].key) = Len(body.json.name)
         /\ \A i \in 1..Len(body.json.name) :
               requests[2].key[i] = IF body.json.name[i] = " " THEN "_" ELSE body.json.name[i]
         /\ requests[2].key # code
         /\ requests[2].key # arg

\* a run of main issued both requests, the second for South_Africa
C8_Witness ==
    /\ entry = "main"
    /\ pc = "done"
    /\ Len(requests) = 2
    /\ requests[2].key = <<"S","o","u","t","h","_","A","f","r","i","c","a">>

\* C10: in a run of main a failed country-data request is logged and yields None,
\* and main then prints the message; main prints at most one output, a report
\* exactly when get_country_info yielded a record and the message exactly when it
\* yielded None.
C10_Output ==
    entry = "main" =>
        /\ Len(stdout) <= 1
        /\ (Len(requests) >= 1 /\ Failed(requests[1])) =>
              /\ result = None
              /\ Logged("ERROR", "Error fetching data from API", requests[1].outcome)
              /\ pc \in {"main_print", "done"}
        /\ Len(stdout) = 1 =>
              /\ stdout[1].t = "report" <=> result.t = "dict"
              /\ stdout[1].t = "message" <=> result = None
              /\ stdout[1].t = "report" => stdout[1].info = result.v
        /\ pc = "done" => Len(stdout) = 1
        /\ result.t = "dict" => (pc = "done" <=> Len(stdout) = 1)

\* the country-data request timed out and main printed the message
C10_Witness ==
    /\ entry = "main"
    /\ pc = "done"
    /\ requests = <<Request("country-data", <<"J","P">>, "Timeout")>>
    /\ stdout = <<[t |-> "message", text |-> "No information found for the given code."]>>

----------------------------------------------------------------------------
(* Properties of the conflict heuristic *)

IsYearWord(w, year) == Contains(w, Str(year))
IsKeywordWord(w) ==
    \E k \in { w_war, <<"c","o","n","f","l","i","c","t">>,
               <<"i","n","s","u","r","g","e","n","c","y">>,
               <<"r","e","b","e","l","l","i","o","n">>,
               <<"u","p","r","i","s","i","n","g">> } :
        Contains([i \in 1..Len(w) |-> LowerCh(w[i])], k)

\* some year word and some keyword word of the sentence are at most 10 words apart
Qualifies(words, year) ==
    \E i, j \in 1..Len(words) :
        /\ IsYearWord(words[i], year)
        /\ IsKeywordWord(words[j])
        /\ Abs(i - j) <= 10

Answered == pc = "ccc_return" /\ conflict_info.kind # "error"

\* C2: check_civil_conflict answers with evidence exactly when some sentence of the
\* article has a word containing the current year and a word containing a keyword
\* at most 10 positions apart, and otherwise with the negative finding that names
\* the country and the current year.
C2_EvidenceIff ==
    Answered =>
        /\ conflict_info.kind = "evidence" <=>
              \E s \in 1..Len(sentences) : Qualifies(sentences[s], current_year)
        /\ conflict_info.kind # "evidence" =>
              conflict_info = [kind |-> "none", text |-> "No recent conflicts found",
                               country |-> country, year |-> Str(current_year)]

\* evidence from a sentence whose only year word and keyword word are exactly 10
\* positions apart
C2_Witness ==
    /\ Answered
    /\ conflict_info.kind = "evidence"
    /\ Len(year_positions) = 1
    /\ Len(keyword_positions) = 1
    /\ Abs(year_positions[1] - keyword_positions[1]) = 10

\* the heuristic's answer on an article: the first sentence that qualifies, 0 if none
RECURSIVE FirstMatch(_, _, _)
FirstMatch(sents, year, from) ==
    IF from > Len(sents) THEN 0
    ELSE IF Near(YearPositions(sents[from], year), KeywordPositions(sents[from])) THEN from
    ELSE FirstMatch(sents, year, from + 1)

\* the article with the letter case of one word, or of every word, changed
CaseChanged(sents) ==
    { [s \in 1..Len(sents) |-> [i \in 1..Len(sents[s]) |-> StrUpper(sents[s][i])]],
      [s \in 1..Len(sents) |-> [i \in 1..Len(sents[s]) |-> StrLower(sents[s][i])]] }
    \cup UNION { { [sents EXCEPT ![s][i] = StrUpper(@)] : i \in 1..Len(sents[s]) } :
                   s \in 1..Len(sents) }
    \cup UNION { { [sents EXCEPT ![s][i] = StrLower(@)] : i \in 1..Len(sents[s]) } :
                   s \in 1..Len(sents) }

Examined == pc = "ccc_return" \/ (pc = "ccc_scan" /\ idx > 1)
LastExamined == IF pc = "ccc_return" THEN idx ELSE idx - 1

\* C5: the keyword positions of a sentence are exactly the positions of the words
\* whose lower-cased form contains war, conflict, insurgency, rebellion or
\* uprising, so War, WARFARE and wartime count; and the answer (evidence or not,
\* and from which sentence) is the answer for the article with the letter case of
\* any word changed.
C5_CaseInsensitive ==
    /\ (Examined /\ conflict_info.kind # "error" /\ LastExamined <= Len(sentences)) =>
          LET words == sentences[LastExamined]
          IN /\ \A i \in 1..Len(words) :
                   (\E k \in 1..Len(keyword_positions) : keyword_positions[k] = i - 1)
                      <=> IsKeywordWord(words[i])
             /\ \A i \in 1..Len(words) :
                   words[i] \in {w_War, w_WARFARE, w_wartime} =>
                      \E k \in 1..Len(keyword_positions) : keyword_positions[k] = i - 1
    /\ Answered =>
          \A v \in CaseChanged(sentences) :
              FirstMatch(v, current_year, 1)
                 = IF conflict_info.kind = "evidence" THEN idx ELSE 0

\* evidence from a sentence whose only keyword word is WARFARE
C5_Witness ==
    /\ Answered
    /\ conflict_info.kind = "evidence"
    /\ Len(keyword_positions) = 1
    /\ conflict_info.sentence[keyword_positions[1] + 1] = w_WARFARE

\* the sentence reported is the first of the article that qualifies, as it stands
\* in the article, for wrapping at 80 columns; it is the last sentence the loop
\* examined, and no sentence before it qualifies
FirstWins ==
    (pc = "ccc_return" /\ conflict_info.kind = "evidence") =>
        /\ idx \in 1..Len(sentences)
        /\ conflict_info.sentence = sentences[idx]
        /\ conflict_info.width = 80
        /\ Qualifies(sentences[idx], current_year)
        /\ \A j \in 1..(idx - 1) : ~Qualifies(sentences[j], current_year)
        /\ year_positions = YearPositions(sentences[idx], current_year)
        /\ keyword_positions = KeywordPositions(sentences[idx])

\* once check_civil_conflict has returned, no further sentence is examined and the
\* report stands
ScanStops ==
    [][pc = "ccc_return" =>
          /\ idx' = idx
          /\ conflict_info' = conflict_info
          /\ year_positions' = year_positions
          /\ keyword_positions' = keyword_positions]_vars

\* C9: when several sentences qualify, the report is the first of them in article
\* order, as it stands in the article, for wrapping at 80 columns; no sentence
\* before it qualifies, and with it the scan stops: no later sentence is examined
\* and the report is not replaced.
C9_FirstWinsAndStops == []FirstWins /\ ScanStops

\* the second sentence is reported while the third qualifies too
C9_Witness ==
    /\ pc = "ccc_return"
    /\ conflict_info.kind = "evidence"
    /\ idx = 2
    /\ Len(sentences) = 3
    /\ Qualifies(sentences[3], current_year)
    /\ sentences[3] # sentences[2]

====
